---- MODULE Spec2Model ----
(***************************************************************************)
(* KDAudioClock: the event scheduler (the clock's event queue, the         *)
(* identifier registry, the tick loop) and the per-event state machine of  *)
(* KDAudioClockEvent.                                                      *)
(*                                                                         *)
(* Representation.  The source keeps clock times in seconds and intervals  *)
(* in milliseconds and converts with /1000 and *1000.  Here every time and *)
(* every interval is an integer number of milliseconds: a clock time of s  *)
(* seconds is the integer 1000*s, so the default tolerance                 *)
(* {early: 0.001, late: 0.1} is {1, 100}.  The JavaScript values Infinity, *)
(* undefined and NaN are the integers named below; the Js* operators give  *)
(* the arithmetic and the comparisons their JavaScript meaning (a          *)
(* comparison with NaN or undefined is false, a sum with one is NaN).      *)
(* null is 0, which is what it is coerced to in every place the source     *)
(* reads it as a number.                                                   *)
(***************************************************************************)
EXTENDS Integers, Sequences, FiniteSets, TLC

(***************************************************************************)
(* JavaScript values                                                       *)
(***************************************************************************)
Infinity == 1000000
Undefined == -1000001
NaN == -1000002
Null == 0

NotANumber(x) == x = Undefined \/ x = NaN
TypeofNumber(x) == x # Undefined
Falsy(x) == x = Undefined \/ x = NaN \/ x = 0
JsAdd(a, b) ==
  IF NotANumber(a) \/ NotANumber(b) THEN NaN
  ELSE IF a = Infinity \/ b = Infinity THEN Infinity
  ELSE a + b
JsSub(a, b) ==
  IF NotANumber(a) \/ NotANumber(b) THEN NaN
  ELSE IF a = Infinity THEN Infinity
  ELSE a - b
JsLt(a, b) == ~NotANumber(a) /\ ~NotANumber(b) /\ a < b
JsLe(a, b) == ~NotANumber(a) /\ ~NotANumber(b) /\ a <= b
JsGe(a, b) == JsLe(b, a)
\* x * (num/den) for a ratio given as the pair <<num, den>>
JsScale(x, r) ==
  IF NotANumber(x) THEN NaN
  ELSE IF x = Infinity THEN Infinity
  ELSE (x * r[1]) \div r[2]

(***************************************************************************)
(* Bounds of the model                                                     *)
(***************************************************************************)
MaxEvents == 2       \* events one run creates
MaxSteps == 4        \* steps of the clock's time
MaxOptionEvents == 1 \* events of a run that draws from every option set
StackLimit == 12     \* nested calls of an endless recursion that are followed
TimeStep == 50       \* the time source advances in steps of 50 ms
MaxScores == 2       \* scores one run starts

(***************************************************************************)
(* Program constants                                                       *)
(***************************************************************************)
DefaultEarly == 1    \* defaults.tolerance.early, 0.001 s
DefaultLate == 100   \* defaults.tolerance.late, 0.1 s
MinWaitThreshold == 50   \* interval >= 0.05
MinWait == 5             \* ... : 0.005

Events == 1..MaxEvents
Scores == 1..MaxScores
HandlerNames == {"onTick", "onComplete", "onAborted", "onMissed"}
\* what a handler does besides being called: "observe" (nothing more),
\* "deleteSelf" (delete the event it is given), "deleteOthers" and
\* "rescheduleOthers" (delete or reschedule the other events it holds),
\* "score" (the callback score gives to setTimeout)
Observers == [h \in HandlerNames |-> "observe"]
One == <<1, 1>>

VARIABLES
  now,          \* self.context.currentTime
  context,      \* self.context: "null", or the AudioContext's state
  closePending, \* stop's context.close() promise has not resolved yet
  isRunning,    \* self.isRunning
  isPaused,     \* self.isPaused
  tickQueued,   \* onaudioprocess has queued a tick with process.nextTick
  events,       \* self.events: the event queue, a sequence of event ids
  ev,           \* the KDAudioClockEvent objects, by id
  uidmap,       \* self.uidmanager's map, in insertion order: <<key, uid>> records
  nextUid,      \* the identifiers the generator has handed out so far, plus one
  nextId,       \* the events constructed so far, plus one
  halted,       \* a call never returned: the single thread is stuck in it
  log,          \* what the last operation did to events: firings and deletions
  lastOp,       \* the last operation, its arguments and its outcome
  held,         \* events suspended through the API and not requeued since
  scores        \* the closures of the calls of score, by the order of the calls

vars == <<now, context, closePending, isRunning, isPaused, tickQueued, events,
          ev, uidmap, nextUid, nextId, halted, log, lastOp, held, scores>>

(***************************************************************************)
(* The KDAudioClockEvent object: `self` of the constructor, and `deleted`. *)
(***************************************************************************)
\* an event that is not constructed yet
Unborn ==
  [state |-> "unborn", suspended |-> FALSE, uid |-> Null,
   scheduled |-> Null, earliest |-> Null, latest |-> Null,
   early |-> 0, late |-> 0,
   initialInterval |-> Null, currentInterval |-> Null,
   repetitions |-> Undefined, elapsedTickCount |-> 0, timeStretch |-> One,
   handlers |-> {}, does |-> Observers, score |-> 0, pair |-> 0]

\* destroy: every key of self is undefined
Destroyed == [Unborn EXCEPT !.state = "deleted"]

\* the constructor's `self`
NewEvent(opts) ==
  [state |-> "live", suspended |-> FALSE, uid |-> Null,
   scheduled |-> Null, earliest |-> Null, latest |-> Null,
   early |-> opts.early, late |-> opts.late,
   initialInterval |-> Null, currentInterval |-> Null,
   repetitions |-> opts.repetitions, elapsedTickCount |-> 0,
   timeStretch |-> One,
   handlers |-> opts.handlers,
   does |-> IF "does" \in DOMAIN opts THEN opts.does ELSE Observers,
   \* the score and the pair whose one-shot the event is (0: of none)
   score |-> IF "score" \in DOMAIN opts THEN opts.score ELSE 0,
   pair |-> IF "pair" \in DOMAIN opts THEN opts.pair ELSE 0]

\* the closure of one call of score: `events` (the waits of the pairs not
\* shifted off yet), `breaker`, and for the properties the waits of all
\* pairs, the number of pairs shifted off and the calls of the pairs'
\* callbacks
NoScore ==
  [made |-> FALSE, pairs |-> <<>>, breaker |-> FALSE, list |-> <<>>,
   shifted |-> 0, calls |-> <<>>]

(***************************************************************************)
(* The machine state an operation works on: the variables as one record,   *)
(* threaded through the calls.  err is the exception being thrown ("none": *)
(* none); once it is set every later step of the call is skipped, which is *)
(* how the exception unwinds the calls.                                    *)
(***************************************************************************)
Cur ==
  [now |-> now, context |-> context, isRunning |-> isRunning,
   events |-> events, ev |-> ev, uidmap |-> uidmap, nextUid |-> nextUid,
   nextId |-> nextId, log |-> <<>>, err |-> "none", ret |-> Undefined,
   deleting |-> {}, scores |-> scores]

Throw(m, e) == [m EXCEPT !.err = e]

(***************************************************************************)
(* KDUIDManager                                                            *)
(***************************************************************************)
RECURSIVE WithoutKey(_, _)
WithoutKey(map, key) ==
  IF map = <<>> THEN <<>>
  ELSE IF Head(map).key = key THEN WithoutKey(Tail(map), key)
  ELSE <<Head(map)>> \o WithoutKey(Tail(map), key)

hasUIDFor(m, e) == \E i \in DOMAIN m.uidmap : m.uidmap[i].key = e

getUIDFor(m, e) ==
  IF hasUIDFor(m, e)
  THEN LET i == CHOOSE i \in DOMAIN m.uidmap : m.uidmap[i].key = e
       IN m.uidmap[i].uid
  ELSE Undefined

\* generator.generate(): an identifier never handed out before
generate(m) == m.nextUid

\* a registration that leaves the generator where it was
generateUIDAgain(m, e) ==
  [m EXCEPT !.uidmap = Append(WithoutKey(@, e), [key |-> e, uid |-> generate(m)])]

generateUIDFor(m, e) ==
  [m EXCEPT !.uidmap = Append(WithoutKey(@, e), [key |-> e, uid |-> generate(m)]),
            !.nextUid = @ + 1]

\* getKeyFor: the key of the first entry that holds the identifier
getKeyFor(m, uid) ==
  IF \E i \in DOMAIN m.uidmap : m.uidmap[i].uid = uid
  THEN LET i == CHOOSE i \in DOMAIN m.uidmap :
                  /\ m.uidmap[i].uid = uid
                  /\ \A j \in 1..(i - 1) : m.uidmap[j].uid # uid
       IN m.uidmap[i].key
  ELSE Undefined

deleteUIDFor(m, e) == [m EXCEPT !.uidmap = WithoutKey(@, e)]

keys(m) == [i \in DOMAIN m.uidmap |-> m.uidmap[i].key]

(***************************************************************************)
(* KDAudioClock: the event queue                                           *)
(***************************************************************************)
\* event?.get?.nextDeadline()?.earliest: undefined for a deleted event
earliestOf(m, e) ==
  IF m.ev[e].state = "live" THEN m.ev[e].earliest ELSE Undefined

RECURSIVE Search(_, _, _, _)
Search(m, deadline, low, high) ==
  IF low < high
  THEN LET mid == (low + high) \div 2
           \* self.events[mid], 0-based, is events[mid + 1]
           early == JsLt(earliestOf(m, m.events[mid + 1]), deadline)
       IN IF early THEN Search(m, deadline, mid + 1, high)
          ELSE Search(m, deadline, low, mid)
  ELSE low

\* the 0-based index at which an event with this earliest bound is inserted
indexByTime(m, deadline) == Search(m, deadline, 0, Len(m.events))

hasEvent(m, e) == \E i \in DOMAIN m.events : m.events[i] = e

\* an insertion that registers the event anew every time
insertEventAnew(m, e) ==
  LET index == indexByTime(m, m.ev[e].earliest)
      q == SubSeq(m.events, 1, index) \o <<e>>
           \o SubSeq(m.events, index + 1, Len(m.events))
  IN generateUIDFor([m EXCEPT !.events = q], e)

insertEvent(m, e) ==
  LET index == indexByTime(m, m.ev[e].earliest)
      q == SubSeq(m.events, 1, index) \o <<e>>
           \o SubSeq(m.events, index + 1, Len(m.events))
      m1 == [m EXCEPT !.events = q]
  IN IF ~hasUIDFor(m1, e) THEN generateUIDFor(m1, e) ELSE m1

removeEvent(m, e) ==
  IF hasEvent(m, e)
  THEN LET i == CHOOSE i \in DOMAIN m.events :
                  m.events[i] = e /\ \A j \in 1..(i - 1) : m.events[j] # e
       IN [m EXCEPT !.events = SubSeq(@, 1, i - 1) \o SubSeq(@, i + 1, Len(@))]
  ELSE m

deleteEventFromManager(m, e) ==
  IF hasUIDFor(m, e) THEN deleteUIDFor(m, e) ELSE m


(***************************************************************************)
(* KDAudioClockEvent: the methods of `_self`.  d is the depth of the call  *)
(* stack.                                                                  *)
(***************************************************************************)
live(m, e) == m.ev[e].state = "live"

\* this.getCurrentTime of the clock
getCurrentTime(m) == IF m.context = "null" THEN Null ELSE m.now

\* what the log keeps of a firing (kind "fire") or of a deletion (kind
\* "delete"): the handler that was called ("none": none) and the event's
\* fields at the call
LogEntry(m, e, kind, cb) ==
  [ev |-> e, kind |-> kind, cb |-> cb, now |-> getCurrentTime(m),
   scheduled |-> m.ev[e].scheduled, earliest |-> m.ev[e].earliest,
   latest |-> m.ev[e].latest,
   elapsedTickCount |-> m.ev[e].elapsedTickCount,
   repetitions |-> m.ev[e].repetitions,
   currentInterval |-> m.ev[e].currentInterval]

\* self.callbacks[cb](this): the call is logged and the handler runs, see
\* below
RECURSIVE invoke(_, _, _, _, _)
RECURSIVE EventDelete(_, _, _)

isLooping(m, e) == JsLt(m.ev[e].elapsedTickCount, m.ev[e].repetitions)

EventUpdate(m, e, deadline) ==
  [m EXCEPT !.ev[e].scheduled = deadline,
            !.ev[e].latest = JsAdd(deadline, m.ev[e].late),
            !.ev[e].earliest = JsSub(deadline, m.ev[e].early)]

\* suspend without the removal from the queue
SuspendFlagOnly(m, e) ==
  IF m.err # "none" \/ ~live(m, e) THEN m
  ELSE [m EXCEPT !.ev[e].suspended = TRUE]

EventSuspend(m, e) ==
  IF m.err # "none" \/ ~live(m, e) THEN m
  ELSE [removeEvent(m, e) EXCEPT !.ev[e].suspended = TRUE]

EventDestroy(m, e) == [m EXCEPT !.ev[e] = Destroyed]

\* the terminal handler delete calls
TerminalCallback(m, e) ==
  IF isLooping(m, e) /\ "onAborted" \in m.ev[e].handlers THEN "onAborted"
  ELSE IF "onComplete" \in m.ev[e].handlers THEN "onComplete"
  ELSE "none"

\* the rest of delete without the removal from the registry
AfterTerminalKeepsEntry(m, e) ==
  IF m.err # "none" THEN m
  ELSE IF ~live(m, e) THEN Throw(m, "TypeError")
  ELSE EventDestroy(EventSuspend(m, e), e)

\* delete after its handler has run: `_self.suspend()` and the rest; after a
\* handler that has deleted e itself `_self.suspend` is undefined
AfterTerminal(m, e) ==
  IF m.err # "none" THEN m
  ELSE IF ~live(m, e) THEN Throw(m, "TypeError")
  ELSE EventDestroy(deleteEventFromManager(EventSuspend(m, e), e), e)

EventDelete(m, e, d) ==
  IF m.err # "none" \/ ~live(m, e) THEN m
  \* a handler that calls delete on an event whose delete is still running
  \* runs that event's handler again, and so on until the engine throws
  ELSE IF d > StackLimit /\ e \in m.deleting THEN Throw(m, "RangeError")
  ELSE AfterTerminal(invoke([m EXCEPT !.deleting = @ \cup {e}], e, "delete",
                            TerminalCallback(m, e), d), e)

\* a requeue that inserts without the removal
requeueTwice(m, e) == insertEvent(m, e)

requeue(m, e) ==
  insertEvent(IF hasEvent(m, e) THEN removeEvent(m, e) ELSE m, e)

\* the handler a firing calls
TickCallback(m, e) ==
  LET onTime == JsGe(getCurrentTime(m), m.ev[e].earliest)
                /\ JsLe(getCurrentTime(m), m.ev[e].latest)
  IN IF onTime /\ "onTick" \in m.ev[e].handlers THEN "onTick"
     ELSE IF "onMissed" \in m.ev[e].handlers THEN "onMissed"
     ELSE "none"

\* the deadline execute requeues for
NextDeadline(m, e) == JsAdd(m.ev[e].scheduled, m.ev[e].currentInterval)

RECURSIVE EventExecute(_, _, _), EventSchedule(_, _, _, _, _)
RECURSIVE AfterCallback(_, _, _)

EventExecute(m, e, d) ==
  IF m.err # "none" \/ ~live(m, e) THEN m
  ELSE IF ~m.isRunning \/ m.ev[e].suspended THEN m
  \* a firing that requeues for the same deadline without end nests until the
  \* engine throws; one that moves the deadline on catches up and returns
  ELSE IF /\ d > StackLimit
          /\ NextDeadline(m, e) = m.ev[e].scheduled
          /\ m.ev[e].repetitions = Infinity
    THEN Throw(m, "RangeError")
  ELSE
    LET m1 == removeEvent(m, e)
        m2 == [m1 EXCEPT !.ev[e].elapsedTickCount = @ + 1]
    IN AfterCallback(invoke(m2, e, "fire", TickCallback(m2, e), d), e, d)

\* execute after the handler of the firing has run
AfterCallback(m, e, d) ==
  IF m.err # "none" \/ ~live(m, e) THEN m
  ELSE IF JsGe(m.ev[e].elapsedTickCount, m.ev[e].repetitions)
    THEN EventDelete(m, e, d + 1)
  ELSE
    LET ready == ~hasEvent(m, e) /\ isLooping(m, e) /\ ~m.ev[e].suspended
    IN IF ready THEN EventSchedule(m, e, NextDeadline(m, e), FALSE, d + 1)
       ELSE m

EventSchedule(m, e, deadline, sync, d) ==
  IF m.err # "none" \/ ~live(m, e) THEN m
  ELSE
    LET m1 == EventUpdate([m EXCEPT !.ev[e].suspended = FALSE], e, deadline)
        onTime == JsGe(getCurrentTime(m1), m1.ev[e].earliest)
    IN IF sync THEN requeue(m1, e)
       ELSE IF onTime THEN EventExecute(m1, e, d + 1)
       ELSE requeue(m1, e)

EventSync(m, e, delayInMs) ==
  EventSchedule(m, e, JsAdd(getCurrentTime(m), delayInMs), TRUE, 1)

EventReschedule(m, e, deadline) ==
  IF m.err # "none" \/ ~live(m, e) THEN m
  ELSE LET dl == IF Falsy(deadline) THEN getCurrentTime(m) ELSE deadline
       IN EventSchedule([m EXCEPT !.ev[e].elapsedTickCount = 0], e, dl, TRUE, 1)

\* the events a handler of e holds besides e, oldest first
RECURSIVE OthersFrom(_, _, _)
OthersFrom(m, e, k) ==
  IF k > MaxEvents THEN <<>>
  ELSE (IF k # e /\ m.ev[k].state # "unborn" THEN <<k>> ELSE <<>>)
       \o OthersFrom(m, e, k + 1)

\* other.delete() for each of them: delete is undefined on a destroyed event
RECURSIVE DeleteEach(_, _, _)
DeleteEach(m, ks, d) ==
  IF m.err # "none" \/ ks = <<>> THEN m
  ELSE DeleteEach(IF live(m, Head(ks)) THEN EventDelete(m, Head(ks), d + 1)
                  ELSE Throw(m, "TypeError"),
                  Tail(ks), d)

\* other.reschedule() for each of them
RECURSIVE RescheduleEach(_, _)
RescheduleEach(m, ks) ==
  IF m.err # "none" \/ ks = <<>> THEN m
  ELSE RescheduleEach(IF live(m, Head(ks))
                      THEN EventReschedule(m, Head(ks), Undefined)
                      ELSE Throw(m, "TypeError"),
                      Tail(ks))

\* other.suspend() for each of them
RECURSIVE SuspendEach(_, _)
SuspendEach(m, ks) ==
  IF m.err # "none" \/ ks = <<>> THEN m
  ELSE SuspendEach(IF live(m, Head(ks)) THEN EventSuspend(m, Head(ks))
                   ELSE Throw(m, "TypeError"),
                   Tail(ks))

\* other.sync(delayInMs) for each of them
RECURSIVE SyncEach(_, _, _, _)
SyncEach(m, ks, delayInMs, d) ==
  IF m.err # "none" \/ ks = <<>> THEN m
  ELSE SyncEach(IF live(m, Head(ks))
                THEN EventSchedule(m, Head(ks),
                                   JsAdd(getCurrentTime(m), delayInMs), TRUE,
                                   d + 1)
                ELSE Throw(m, "TypeError"),
                Tail(ks), delayInMs, d)

\* handleEvent of score and timeStretch, see below
RECURSIVE handleEvent(_, _)
RECURSIVE TimeStretchFrom(_, _, _, _)


\* a callback of score that goes on with the next pair whatever the breaker
ScoreCallbackUnbroken(m, e) ==
  LET k == m.ev[e].score
      m1 == [m EXCEPT !.scores[k].calls =
                         Append(@, [pair |-> m.ev[e].pair,
                                    now |-> getCurrentTime(m)]),
                      !.scores[k].breaker = FALSE]
  IN IF Len(m.scores[k].pairs) > 0 THEN handleEvent(m1, k) ELSE m1

\* (ev) => { if (destroyed || breaker) return; callback(ev);
\*           if (events?.length > 0) handleEvent(); }
ScoreCallback(m, e) ==
  LET k == m.ev[e].score
      m1 == [m EXCEPT !.scores[k].calls =
                         Append(@, [pair |-> m.ev[e].pair,
                                    now |-> getCurrentTime(m)])]
  IN IF m.scores[k].breaker THEN m
     ELSE IF Len(m.scores[k].pairs) > 0 THEN handleEvent(m1, k)
     ELSE m1

\* the delay a handler passes on, two steps of the time source, and the ratio
HandlerDelay == 2 * TimeStep
HandlerRatio == <<2, 1>>

\* the body of a handler of e
Handler(m, e, effect, d) ==
  IF effect = "deleteSelf" THEN EventDelete(m, e, d + 1)
  ELSE IF effect = "deleteOthers" THEN DeleteEach(m, OthersFrom(m, e, 1), d)
  ELSE IF effect = "rescheduleOthers"
    THEN RescheduleEach(m, OthersFrom(m, e, 1))
  ELSE IF effect = "score" THEN ScoreCallback(m, e)
  ELSE IF effect = "suspendSelf" THEN EventSuspend(m, e)
  ELSE IF effect = "suspendOthers" THEN SuspendEach(m, OthersFrom(m, e, 1))
  ELSE IF effect = "syncOthers"
    THEN SyncEach(m, OthersFrom(m, e, 1), HandlerDelay, d)
  \* ev.schedule(clock.getCurrentTime() + delay)
  ELSE IF effect = "scheduleSelf"
    THEN EventSchedule(m, e, JsAdd(getCurrentTime(m), HandlerDelay), FALSE,
                       d + 1)
  \* ev.sync(delay)
  ELSE IF effect = "syncSelf"
    THEN EventSchedule(m, e, JsAdd(getCurrentTime(m), HandlerDelay), TRUE,
                       d + 1)
  \* ev.timeStretch(ratio): when the stretched deadline is due the event fires
  \* from within the handler, which stretches it again to the same deadline,
  \* and so on until the repetitions are used up or the engine throws
  ELSE IF effect = "stretchSelf"
    THEN IF d > StackLimit /\ m.ev[e].repetitions = Infinity
           THEN Throw(m, "RangeError")
         ELSE TimeStretchFrom(m, e, HandlerRatio, d + 1)
  ELSE m

invoke(m, e, kind, cb, d) ==
  LET m1 == [m EXCEPT !.log = Append(@, LogEntry(m, e, kind, cb))]
  IN IF cb = "none" THEN m1 ELSE Handler(m1, e, m.ev[e].does[cb], d)

EventUpdateWithInterval(m, e, intervalInMs) ==
  IF m.err # "none" \/ ~live(m, e) THEN m
  ELSE LET m1 == [m EXCEPT !.ev[e].initialInterval = intervalInMs,
                           !.ev[e].currentInterval =
                              JsScale(intervalInMs, m.ev[e].timeStretch)]
           dl == JsAdd(m1.ev[e].scheduled, m1.ev[e].currentInterval)
       IN IF ~hasEvent(m1, e) THEN EventSchedule(m1, e, dl, FALSE, 1) ELSE m1

\* a stretch that scales the interval the event has now
StretchCurrent(m, e, ratio) ==
  IF m.err # "none" \/ ~live(m, e) THEN m
  ELSE IF ~isLooping(m, e) THEN m
  ELSE [m EXCEPT !.ev[e].timeStretch = ratio,
                 !.ev[e].currentInterval = JsScale(@, ratio)]

\* `while (time <= latest) deadline += ...`: latest is computed once, before
\* the loop, so a loop that is entered never ends
TimeStretchFrom(m, e, ratio, d) ==
  IF m.err # "none" \/ ~live(m, e) THEN m
  ELSE IF ~isLooping(m, e) THEN m
  ELSE
    LET m1 == IF hasEvent(m, e) THEN removeEvent(m, e) ELSE m
        interval == m1.ev[e].currentInterval
        old == JsSub(m1.ev[e].scheduled, interval)
        m2 == [m1 EXCEPT !.ev[e].timeStretch = ratio,
                         !.ev[e].currentInterval =
                            JsScale(m1.ev[e].initialInterval, ratio)]
        deadline == JsAdd(old, m2.ev[e].currentInterval)
        time == getCurrentTime(m2)
        earliest == JsSub(deadline, m2.ev[e].early)
        latest == JsSub(deadline, m2.ev[e].late)
    IN IF JsGe(time, earliest) /\ JsLe(time, latest) THEN Throw(m2, "Hang")
       ELSE EventSchedule(m2, e, deadline, FALSE, d + 1)

\* event.timeStretch(ratio) called from outside a handler
EventTimeStretch(m, e, ratio) == TimeStretchFrom(m, e, ratio, 0)


(***************************************************************************)
(* KDAudioClock: tick, schedule, stop                                      *)
(***************************************************************************)
\* the while loop of tick, the head of the queue being shifted off first
RECURSIVE TickLoop(_)
TickLoop(m) ==
  IF m.err # "none" \/ m.events = <<>> THEN m
  ELSE LET event == Head(m.events)
           shifted == [m EXCEPT !.events = Tail(@)]
       IN IF JsLe(earliestOf(m, event), m.now)
          THEN TickLoop(EventExecute(shifted, event, 1))
          ELSE m

tick(m) == IF m.context = "null" THEN m ELSE TickLoop(m)

\* the options of schedule: delay, loop.interval and loop.repetitions are
\* numbers or Undefined, loop says whether the loop object is there at all
\* (interval and repetitions are Undefined when it is not), early and late
\* are the tolerance (Undefined: not given), handlers the callbacks given
LoopDefaults(o) ==
  IF TypeofNumber(o.delay) /\ Falsy(o.interval) /\ Falsy(o.repetitions)
    THEN [o EXCEPT !.loop = TRUE, !.interval = Undefined, !.repetitions = 1]
  ELSE IF Falsy(o.delay) /\ TypeofNumber(o.interval) /\ Falsy(o.repetitions)
    THEN [o EXCEPT !.repetitions = Infinity]
  ELSE o

infiteDelay(o) == o.delay = Infinity
\* the guard without its negation: ev?.delay === undefined && ev?.loop
noDelayAndLoop(o) == o.delay = Undefined /\ o.loop
noDelayOrLoop(o) == o.delay = Undefined /\ ~o.loop
zeroDelayWithInfiniteRepetitions(o) ==
  Falsy(o.delay) /\ Falsy(o.interval) /\ o.repetitions = Infinity

getDelay(o) ==
  IF TypeofNumber(o.delay) /\ o.delay # NaN THEN o.delay
  ELSE IF TypeofNumber(o.interval) /\ o.interval # NaN THEN o.interval
  ELSE 0

\* the wait without its floor
Unclamped(interval) == interval
\* interval = interval >= 0.05 ? interval : 0.005
ClampWait(interval) ==
  IF JsGe(interval, MinWaitThreshold) THEN interval ELSE MinWait

\* createEvent fills in the clock's default tolerance
WithTolerance(o) ==
  [o EXCEPT !.early = IF @ = Undefined THEN DefaultEarly ELSE @,
            !.late = IF @ = Undefined THEN DefaultLate ELSE @]

\* new KDAudioClockEvent(this, opts, deadline): the constructor ends with
\* _self.schedule(deadline)
createEvent(m, o, deadline) ==
  LET id == m.nextId
      m1 == [m EXCEPT !.ev[id] = NewEvent(WithTolerance(o)), !.nextId = @ + 1]
  IN EventSchedule(m1, id, deadline, FALSE, 1)

\* evt._setUid(uid): _self.setUid is undefined once the event is destroyed
SetUid(m, evt) ==
  IF ~live(m, evt) THEN Throw(m, "TypeError")
  ELSE [m EXCEPT !.ev[evt].uid = getUIDFor(m, evt)]

\* const uid = self.uidmanager.generateUIDFor(evt); evt._setUid(uid)
Identified(m, evt) ==
  IF m.err # "none" THEN m ELSE SetUid(generateUIDFor(m, evt), evt)

\* return evt
Returned(m, evt) == IF m.err # "none" THEN m ELSE [m EXCEPT !.ret = evt]

\* _self.schedule with an options object; the result is in ret
ScheduleOptions(m, options, deadline) ==
  IF m.context = "null" \/ ~m.isRunning THEN m
  ELSE
    LET o == LoopDefaults(options)
        deadlineIsSafe == ~NotANumber(deadline) /\ deadline # Infinity
        dl == IF deadlineIsSafe THEN deadline ELSE m.now
    IN IF infiteDelay(o) \/ zeroDelayWithInfiniteRepetitions(o) THEN m
       ELSE IF noDelayOrLoop(o) THEN m
       ELSE
         LET interval == ClampWait(getDelay(o))
             evt == m.nextId
         IN Returned(EventUpdateWithInterval(
                       Identified(createEvent(m, o, JsAdd(dl, interval)), evt),
                       evt, interval),
                     evt)

\* this.schedule = (opts) => _self.schedule(opts): the deadline is dropped
schedule(m, options) == ScheduleOptions(m, options, Undefined)

\* clock.schedule(options, deadline) through the public method, which takes
\* one parameter
scheduleAt(m, options, deadline) == schedule(m, options)

setTimeout(m, delayInMs) ==
  ScheduleOptions(m, [delay |-> delayInMs, loop |-> TRUE, interval |-> Undefined,
                      repetitions |-> 1, early |-> Undefined, late |-> Undefined,
                      handlers |-> {"onComplete"}],
                  Undefined)

setInterval(m, intervalInMs) ==
  ScheduleOptions(m, [delay |-> Undefined, loop |-> TRUE, interval |-> intervalInMs,
                      repetitions |-> Undefined, early |-> Undefined,
                      late |-> Undefined,
                      handlers |-> {"onTick"}],
                  Undefined)


\* a public method of a deleted event is undefined (destroy redefines every
\* enumerable property of the event): calling it throws a TypeError
Method(m, e, result) == IF live(m, e) THEN result ELSE Throw(m, "TypeError")

\* scheduleGuard of the clock calls event.isSuspended
scheduleEvent(m, e) ==
  IF m.context = "null" \/ ~m.isRunning THEN m
  ELSE Method(m, e, [EventSchedule(m, e, Undefined, FALSE, 1) EXCEPT !.ret = e])

sync(m, e, delay) ==
  IF m.context = "null" THEN m
  ELSE Method(m, e, EventSchedule(m, e, JsAdd(m.now, delay), FALSE, 1))

\* _self.setTimeout(callback, waitDuration) with the callback of score for
\* pair i of score k
ScoreTimeout(m, k, i, waitDuration) ==
  ScheduleOptions(m, [delay |-> waitDuration, loop |-> TRUE,
                      interval |-> Undefined, repetitions |-> 1,
                      early |-> Undefined, late |-> Undefined,
                      handlers |-> {"onComplete"},
                      does |-> [Observers EXCEPT !["onComplete"] = "score"],
                      score |-> k, pair |-> i],
                  Undefined)

\* the result of a call whose return value the caller does not use
Discard(m, ret) == [m EXCEPT !.ret = ret]

\* handleEvent of score k
handleEvent(m, k) ==
  IF m.err # "none" \/ m.scores[k].breaker \/ m.scores[k].pairs = <<>> THEN m
  ELSE LET m1 == [m EXCEPT !.scores[k].pairs = Tail(@),
                           !.scores[k].shifted = @ + 1]
       IN Discard(ScoreTimeout(m1, k, m1.scores[k].shifted,
                               Head(m.scores[k].pairs)),
                  m.ret)

\* the score of the next call of score
nextScore(m) ==
  IF \A k \in Scores : m.scores[k].made THEN 0
  ELSE CHOOSE k \in Scores :
         ~m.scores[k].made /\ \A j \in 1..(k - 1) : m.scores[j].made

\* a score that schedules its first two pairs at once
scoreTwoAtOnce(m, waits) ==
  LET k == nextScore(m)
      m1 == [m EXCEPT !.scores[k] = [NoScore EXCEPT !.made = TRUE,
                                                    !.pairs = waits,
                                                    !.list = waits]]
  IN Discard(handleEvent(handleEvent(m1, k), k), k)

\* _self.score(events): the controller it returns is the score
score(m, waits) ==
  LET k == nextScore(m)
      m1 == [m EXCEPT !.scores[k] = [NoScore EXCEPT !.made = TRUE,
                                                    !.pairs = waits,
                                                    !.list = waits]]
  IN Discard(handleEvent(m1, k), k)

\* keys.forEach((event) => event.delete())
RECURSIVE DeleteAll(_, _)
DeleteAll(m, ks) ==
  IF m.err # "none" \/ ks = <<>> THEN m
  ELSE DeleteAll(Method(m, Head(ks), EventDelete(m, Head(ks), 1)), Tail(ks))

(***************************************************************************)
(* Inputs                                                                  *)
(***************************************************************************)
Options(delays, loops, intervals, repetitions, tolerances, handlers) ==
  { [delay |-> d, loop |-> l, interval |-> i, repetitions |-> r,
     early |-> t[1], late |-> t[2], handlers |-> h] :
      d \in delays, l \in loops, i \in intervals, r \in repetitions,
      t \in tolerances, h \in handlers }

WellFormed(o) == o.loop \/ (o.interval = Undefined /\ o.repetitions = Undefined)

\* a request for an event that repeats every 5 ms without end: a zero delay
\* is the wait and the interval, and the repetitions default to Infinity
Rapid(o) ==
  o.delay = 0 /\ ~Falsy(o.interval) /\ o.repetitions \in {Undefined, Infinity}

NoTolerance == <<Undefined, Undefined>>
\* the tolerance of the test `should create custom events`: 0.2 s, 0.02 s
WideEarly == <<200, 20>>

\* the requests of the specification of the guards: every way of leaving
\* delay, loop.interval and loop.repetitions empty, zero or infinite, and a
\* request that repeats twice, with a finite and with an infinite delay
Requests ==
  { o \in Options({Undefined, 0, Infinity}, BOOLEAN, {Undefined, 0},
                  {Undefined, Infinity}, {NoTolerance}, {HandlerNames})
           \cup Options({100, Infinity}, {TRUE}, {100}, {2}, {NoTolerance},
                        {HandlerNames}) :
      WellFormed(o) }

Ratios == {<<1, 2>>, <<2, 1>>}
\* the explicit deadlines of schedule, in ms of clock time
Deadlines == {0, 100, 300}
\* the arguments of setTimeout and of setInterval, in ms
Timeouts == {100}
Intervals == {100}

\* the option sets of the specification of one event: delay, loop.interval
\* and loop.repetitions empty or set, the default tolerance and a wide one,
\* every handler set or only onComplete and onMissed; the events repeat no
\* faster than the time source steps
OptionRequests ==
  { o \in Options({Undefined, 0, 100}, {TRUE}, {Undefined, 100, 200},
                  {Undefined, 2, Infinity}, {NoTolerance, WideEarly},
                  {HandlerNames, {"onComplete", "onMissed"}}) :
      WellFormed(o) /\ ~Rapid(o) }

(***************************************************************************)
(* Actions                                                                 *)
(***************************************************************************)
Op(name, e, m) == [name |-> name, e |-> e, ret |-> m.ret, err |-> m.err]
\* an operation that touches no event
Quiet == [name |-> "none", e |-> 0, ret |-> Undefined, err |-> "none"]

\* the variables an operation on events leaves behind
Commit(m) ==
  /\ events' = m.events
  /\ ev' = m.ev
  /\ uidmap' = m.uidmap
  /\ nextUid' = m.nextUid
  /\ nextId' = m.nextId
  /\ log' = m.log
  /\ halted' = (m.err = "Hang")
  /\ scores' = m.scores

Init ==
  /\ now = 0
  /\ context = "null"
  /\ closePending = FALSE
  /\ isRunning = FALSE
  /\ isPaused = FALSE
  /\ tickQueued = FALSE
  /\ events = <<>>
  /\ ev = [e \in Events |-> Unborn]
  /\ uidmap = <<>>
  /\ nextUid = 1
  /\ nextId = 1
  /\ halted = FALSE
  /\ log = <<>>
  /\ lastOp = Quiet
  /\ held = {}
  /\ scores = [k \in Scores |-> NoScore]

\* start, resume
Start ==
  /\ ~halted
  /\ ~isRunning
  /\ context' = IF context \in {"null", "suspended"} THEN "running" ELSE context
  /\ now' = IF context = "null" THEN 0 ELSE now
  /\ isRunning' = TRUE
  /\ isPaused' = FALSE
  /\ log' = <<>>
  /\ lastOp' = Quiet
  /\ UNCHANGED <<closePending, tickQueued, events, ev, uidmap, nextUid, nextId,
                 halted, held, scores>>

Pause ==
  /\ ~halted
  /\ isRunning' = FALSE
  /\ isPaused' = TRUE
  /\ context' = IF context = "running" THEN "suspended" ELSE context
  /\ log' = <<>>
  /\ lastOp' = Quiet
  /\ UNCHANGED <<now, closePending, tickQueued, events, ev, uidmap, nextUid,
                 nextId, halted, held, scores>>

Stop ==
  /\ ~halted
  /\ LET m == DeleteAll(Cur, keys(Cur))
     IN /\ Commit(m)
        /\ lastOp' = Op("stop", 0, m)
        /\ context' = IF m.err = "none" /\ context # "null" THEN "closed"
                      ELSE IF context = "running" THEN "suspended"
                      ELSE context
        /\ closePending' = (closePending
                            \/ (m.err = "none" /\ context \in {"running", "suspended"}))
        /\ held' = {e \in held : m.ev[e].state = "live"}
  /\ isRunning' = FALSE
  /\ isPaused' = FALSE
  /\ UNCHANGED <<now, tickQueued>>

\* context.close().then(() => { self.context = null })
CloseResolved ==
  /\ ~halted
  /\ closePending
  /\ closePending' = FALSE
  /\ context' = "null"
  /\ log' = <<>>
  /\ lastOp' = Quiet
  /\ UNCHANGED <<now, isRunning, isPaused, tickQueued, events, ev, uidmap,
                 nextUid, nextId, halted, held, scores>>

\* the time source's currentTime moves on
Advance ==
  /\ ~halted
  /\ context = "running"
  /\ now < MaxSteps * TimeStep
  /\ now' = now + TimeStep
  /\ log' = <<>>
  /\ lastOp' = Quiet
  /\ UNCHANGED <<context, closePending, isRunning, isPaused, tickQueued, events,
                 ev, uidmap, nextUid, nextId, halted, held, scores>>

\* node.onaudioprocess = () => process.nextTick(() => _self.tick())
AudioProcess ==
  /\ ~halted
  /\ isRunning
  /\ context = "running"
  /\ ~tickQueued
  /\ tickQueued' = TRUE
  /\ log' = <<>>
  /\ lastOp' = Quiet
  /\ UNCHANGED <<now, context, closePending, isRunning, isPaused, events, ev,
                 uidmap, nextUid, nextId, halted, held, scores>>

Tick ==
  /\ ~halted
  /\ tickQueued
  /\ tickQueued' = FALSE
  /\ LET m == tick(Cur)
     IN Commit(m) /\ lastOp' = Op("tick", 0, m)
  /\ UNCHANGED <<now, context, closePending, isRunning, isPaused, held>>

\* an operation of the API that leaves the clock's own fields alone
Api(name, e, m) ==
  /\ Commit(m)
  /\ lastOp' = Op(name, e, m)
  /\ UNCHANGED <<now, context, closePending, isRunning, isPaused, tickQueued>>

Schedule(o) ==
  /\ ~halted
  /\ nextId <= MaxEvents
  /\ Api("schedule", 0, schedule(Cur, o))
  /\ UNCHANGED held

\* the option sets of the specification of the initial wait: delays below,
\* at and above 50 ms, with and without loop.interval and loop.repetitions,
\* the default tolerance and a wide one
WaitRequests ==
  { o \in Options({Undefined, 0, 20, 50, 100}, {TRUE}, {Undefined, 100},
                  {Undefined, 2}, {NoTolerance, WideEarly}, {HandlerNames}) :
      ~Rapid(o) }

\* schedule(options) for the first events of a run
ScheduleFirst(o) ==
  /\ nextId <= MaxOptionEvents
  /\ Schedule(o)

\* clock.schedule(options, deadline)
ScheduleAt(o, deadline) ==
  /\ ~halted
  /\ nextId <= MaxOptionEvents
  /\ Api("scheduleAt", 0, scheduleAt(Cur, o, deadline))
  /\ UNCHANGED held

SetTimeout(delayInMs) ==
  /\ ~halted
  /\ nextId <= MaxEvents
  /\ Api("setTimeout", 0, setTimeout(Cur, delayInMs))
  /\ UNCHANGED held

SetInterval(intervalInMs) ==
  /\ ~halted
  /\ nextId <= MaxEvents
  /\ Api("setInterval", 0, setInterval(Cur, intervalInMs))
  /\ UNCHANGED held

\* the events the caller holds a reference to
Known(e) == ev[e].state # "unborn"

Suspend(e) ==
  /\ ~halted
  /\ Known(e)
  /\ Api("suspend", e, Method(Cur, e, EventSuspend(Cur, e)))
  /\ held' = IF ev[e].state = "live" THEN held \cup {e} ELSE held

\* clock.delete, clock.clearInterval, event.delete
Delete(e) ==
  /\ ~halted
  /\ Known(e)
  /\ Api("delete", e, Method(Cur, e, EventDelete(Cur, e, 1)))
  /\ held' = held \ {e}

\* clock.schedule(event, deadline)
ScheduleEvent(e) ==
  /\ ~halted
  /\ Known(e)
  /\ Api("scheduleEvent", e, scheduleEvent(Cur, e))
  /\ held' = held \ {e}

\* event.schedule(deadline)
EventScheduleAt(e, deadline) ==
  /\ ~halted
  /\ Known(e)
  /\ Api("event.schedule", e, Method(Cur, e, EventSchedule(Cur, e, deadline, FALSE, 1)))
  /\ held' = held \ {e}

\* clock.sync(event, delay)
Sync(e, delay) ==
  /\ ~halted
  /\ Known(e)
  /\ Api("sync", e, sync(Cur, e, delay))
  /\ held' = held \ {e}

\* event.reschedule(deadline)
Reschedule(e, deadline) ==
  /\ ~halted
  /\ Known(e)
  /\ Api("reschedule", e, Method(Cur, e, EventReschedule(Cur, e, deadline)))
  /\ held' = held \ {e}

\* clock.timeStretch(event, ratio), event.timeStretch(ratio)
TimeStretch(e, ratio) ==
  /\ ~halted
  /\ Known(e)
  /\ Api("timeStretch", e, Method(Cur, e, EventTimeStretch(Cur, e, ratio)))
  /\ UNCHANGED held

\* the pairs of all scores that are still to be scheduled
RECURSIVE PairsLeft(_)
PairsLeft(k) ==
  IF k > MaxScores THEN 0
  ELSE (IF scores[k].breaker THEN 0 ELSE Len(scores[k].pairs)) + PairsLeft(k + 1)

\* clock.score(events): while there are events left for every pair
Score(waits) ==
  /\ ~halted
  /\ nextScore(Cur) # 0
  /\ (nextId - 1) + PairsLeft(1) + Len(waits) <= MaxEvents
  /\ Api("score", 0, score(Cur, waits))
  /\ UNCHANGED held

\* the controller's break()
Break(k) ==
  /\ ~halted
  /\ scores[k].made
  /\ scores' = [scores EXCEPT ![k].breaker = TRUE]
  /\ log' = <<>>
  /\ lastOp' = [name |-> "break", e |-> k, ret |-> Undefined, err |-> "none"]
  /\ UNCHANGED <<now, context, closePending, isRunning, isPaused, tickQueued,
                 events, ev, uidmap, nextUid, nextId, halted, held>>

(***************************************************************************)
(* Specifications                                                          *)
(***************************************************************************)
\* the clock with setTimeout, setInterval, suspend and delete
Next ==
  \/ Start
  \/ Pause
  \/ Stop
  \/ CloseResolved
  \/ Advance
  \/ AudioProcess
  \/ Tick
  \/ \E d \in Timeouts : SetTimeout(d)
  \/ \E i \in Intervals : SetInterval(i)
  \/ \E e \in Events : Suspend(e)
  \/ \E e \in Events : Delete(e)

Spec == Init /\ [][Next]_vars

\* schedule(options) in every state of the clock
NextGuards ==
  \/ Start
  \/ Pause
  \/ Stop
  \/ CloseResolved
  \/ Advance
  \/ AudioProcess
  \/ Tick
  \/ \E o \in Requests : Schedule(o)

SpecGuards == Init /\ [][NextGuards]_vars

\* repeating events that are suspended, stretched and deleted
NextStretch ==
  \/ Start
  \/ Advance
  \/ AudioProcess
  \/ Tick
  \/ \E i \in Intervals : SetInterval(i)
  \/ \E e \in Events : Suspend(e)
  \/ \E e \in Events : Delete(e)
  \/ \E e \in Events : \E r \in Ratios : TimeStretch(e, r)

SpecStretch == Init /\ [][NextStretch]_vars

\* one event of every option set of OptionRequests, from its creation to its
\* end
NextOptions ==
  \/ Start
  \/ Stop
  \/ Advance
  \/ AudioProcess
  \/ Tick
  \/ \E o \in OptionRequests : ScheduleFirst(o)
  \/ \E e \in Events : Delete(e)

SpecOptions == Init /\ [][NextOptions]_vars

\* new events of every initial wait, requested at every time
NextWait ==
  \/ Start
  \/ Pause
  \/ Advance
  \/ AudioProcess
  \/ Tick
  \/ \E o \in WaitRequests : ScheduleFirst(o)

SpecWait == Init /\ [][NextWait]_vars

\* new events requested with an explicit deadline
NextDeadlines ==
  \/ Start
  \/ Advance
  \/ AudioProcess
  \/ Tick
  \/ \E o \in WaitRequests : \E t \in Deadlines : ScheduleAt(o, t)

SpecDeadlines == Init /\ [][NextDeadlines]_vars

\* events that are suspended and handed back to clock.schedule
NextRequeue ==
  \/ Start
  \/ Pause
  \/ Advance
  \/ AudioProcess
  \/ Tick
  \/ \E i \in Intervals : SetInterval(i)
  \/ \E e \in Events : Suspend(e)
  \/ \E e \in Events : ScheduleEvent(e)

SpecRequeue == Init /\ [][NextRequeue]_vars

\* the delays of clock.sync: the default 0 and one interval
SyncDelays == {0, 100}

\* clock.sync on an event that has fired fewer than MaxSteps times
SyncEarly(e, delay) ==
  /\ ev[e].elapsedTickCount < MaxSteps
  /\ Sync(e, delay)

\* repeating events that are synced
NextSync ==
  \/ Start
  \/ Advance
  \/ AudioProcess
  \/ Tick
  \/ \E i \in Intervals : SetInterval(i)
  \/ \E e \in Events : \E d \in SyncDelays : SyncEarly(e, d)

SpecSync == Init /\ [][NextSync]_vars

\* the ratios of a stretch and the ratio that undoes it
StretchRatios == Ratios \cup {One}

\* timeouts and repeating events that are stretched and restored
NextRatio ==
  \/ Start
  \/ Advance
  \/ AudioProcess
  \/ Tick
  \/ \E d \in Timeouts : SetTimeout(d)
  \/ \E i \in Intervals : SetInterval(i)
  \/ \E e \in Events : \E r \in StretchRatios : TimeStretch(e, r)

SpecRatio == Init /\ [][NextRatio]_vars

\* event.reschedule on an event that has fired fewer than MaxSteps times
RescheduleEarly(e, deadline) ==
  /\ ev[e].elapsedTickCount < MaxSteps
  /\ Reschedule(e, deadline)

\* one event through firing, suspend, schedule, sync, reschedule, timeStretch
\* and delete
NextIdentity ==
  \/ Start
  \/ Advance
  \/ AudioProcess
  \/ Tick
  \/ \E d \in Timeouts : nextId <= MaxOptionEvents /\ SetTimeout(d)
  \/ \E i \in Intervals : nextId <= MaxOptionEvents /\ SetInterval(i)
  \/ \E e \in Events : Suspend(e)
  \/ \E e \in Events : ScheduleEvent(e)
  \/ \E e \in Events : \E d \in SyncDelays : SyncEarly(e, d)
  \/ \E e \in Events : \E t \in Deadlines : RescheduleEarly(e, t)
  \/ \E e \in Events : \E r \in Ratios : TimeStretch(e, r)
  \/ \E e \in Events : Delete(e)

SpecIdentity == Init /\ [][NextIdentity]_vars

\* what the terminal handlers of the stopped events do
TerminalEffects ==
  { [Observers EXCEPT !["onAborted"] = x, !["onComplete"] = x] :
      x \in {"observe", "deleteOthers", "rescheduleOthers"} }

\* repeating events with terminal handlers
StopRequests ==
  { [delay |-> 100, loop |-> TRUE, interval |-> 100, repetitions |-> 2,
     early |-> Undefined, late |-> Undefined,
     handlers |-> {"onAborted", "onComplete"}, does |-> f] :
      f \in TerminalEffects }

\* events with terminal handlers, stopped
NextStop ==
  \/ Start
  \/ Stop
  \/ CloseResolved
  \/ Advance
  \/ AudioProcess
  \/ Tick
  \/ \E o \in StopRequests : Schedule(o)

SpecStop == Init /\ [][NextStop]_vars

\* the waits of the pairs of a score, in ms
ScoreLists == {<<100>>, <<0, 100>>, <<100, 50>>}

\* scores that run, are broken off, and whose one-shots are deleted
NextScore ==
  \/ Start
  \/ Pause
  \/ Advance
  \/ AudioProcess
  \/ Tick
  \/ \E w \in ScoreLists : Score(w)
  \/ \E k \in Scores : Break(k)
  \/ \E e \in Events : Delete(e)

SpecScore == Init /\ [][NextScore]_vars

\* what the handlers of a firing do: nothing, or clearInterval(ev)
FiringEffects ==
  { [Observers EXCEPT !["onTick"] = x, !["onMissed"] = x] :
      x \in {"observe", "deleteSelf"} }

\* repeating events as setInterval makes them, with a terminal handler
SelfDeleteRequests ==
  { [delay |-> Undefined, loop |-> TRUE, interval |-> 100,
     repetitions |-> Undefined, early |-> Undefined, late |-> l,
     handlers |-> h, does |-> f] :
      l \in {Undefined, 20},
      h \in {{"onTick", "onMissed", "onAborted"},
              {"onTick", "onMissed", "onComplete"}, {"onTick", "onMissed"}},
      f \in FiringEffects }

\* repeating events whose handlers delete them while they fire
NextSelfDelete ==
  \/ Start
  \/ Advance
  \/ AudioProcess
  \/ Tick
  \/ \E o \in SelfDeleteRequests : Schedule(o)

SpecSelfDelete == Init /\ [][NextSelfDelete]_vars

\* what the handlers of a firing do to the event they fire for and to the
\* others: suspend, schedule, sync, timeStretch
ReentrantEffects ==
  { [Observers EXCEPT !["onTick"] = x, !["onMissed"] = x] :
      x \in {"suspendSelf", "suspendOthers", "scheduleSelf", "syncSelf",
             "syncOthers", "stretchSelf"} }

\* repeating events, without end and with two repetitions
ReentrantRequests ==
  { [delay |-> Undefined, loop |-> TRUE, interval |-> 100,
     repetitions |-> r, early |-> Undefined, late |-> Undefined,
     handlers |-> {"onTick", "onMissed"}, does |-> f] :
      r \in {Undefined, 2}, f \in ReentrantEffects }

\* repeating events whose handlers call back into the clock while they fire
NextReentrant ==
  \/ Start
  \/ Pause
  \/ Advance
  \/ AudioProcess
  \/ Tick
  \/ \E o \in ReentrantRequests : Schedule(o)
  \/ \E e \in Events : Suspend(e)

SpecReentrant == Init /\ [][NextReentrant]_vars

\* a tolerance whose early and late windows are equal
EvenTolerance == <<50, 50>>

\* repeating events of every tolerance pair: the default, early > late and
\* early = late
ToleranceRequests ==
  Options({Undefined, 100}, {TRUE}, {100}, {Undefined, 2},
          {NoTolerance, WideEarly, EvenTolerance}, {HandlerNames})

\* timeStretch on an event that has fired fewer than MaxSteps times
StretchEarly(e, ratio) ==
  /\ ev[e].elapsedTickCount < MaxSteps
  /\ TimeStretch(e, ratio)

\* one repeating event that is stretched before, at and after its deadline
NextTolerance ==
  \/ Start
  \/ Advance
  \/ AudioProcess
  \/ Tick
  \/ \E o \in ToleranceRequests : ScheduleFirst(o)
  \/ \E e \in Events : \E r \in Ratios : StretchEarly(e, r)

SpecTolerance == Init /\ [][NextTolerance]_vars

\* what the terminal handlers do: nothing, or ev.delete() / clearInterval(ev)
SelfDeleteEffects ==
  { [Observers EXCEPT !["onAborted"] = x, !["onComplete"] = x] :
      x \in {"observe", "deleteSelf"} }

\* events as setTimeout makes them and repeating events with onAborted
TerminalRequests ==
  { [delay |-> 100, loop |-> TRUE, interval |-> Undefined, repetitions |-> 1,
     early |-> Undefined, late |-> Undefined,
     handlers |-> {"onComplete"}, does |-> f] : f \in SelfDeleteEffects }
  \cup
  { [delay |-> Undefined, loop |-> TRUE, interval |-> 100,
     repetitions |-> Undefined, early |-> Undefined, late |-> Undefined,
     handlers |-> {"onTick", "onAborted"}, does |-> f] :
      f \in SelfDeleteEffects }

\* events whose terminal handlers delete them, completed and deleted
NextTerminal ==
  \/ Start
  \/ Advance
  \/ AudioProcess
  \/ Tick
  \/ \E o \in TerminalRequests : Schedule(o)
  \/ \E e \in Events : Delete(e)

SpecTerminal == Init /\ [][NextTerminal]_vars

(***************************************************************************)
(* Properties                                                              *)
(***************************************************************************)
\* C1: within one tick the handlers onTick and onMissed are called in
\* non-decreasing order of the earliest bound each firing was scheduled for,
\* also when a repeating event has fallen several intervals behind
C1_FiringOrder ==
  lastOp.name = "tick" =>
    \A i, j \in DOMAIN log :
      (/\ i < j
       /\ log[i].kind = "fire" /\ log[i].cb \in {"onTick", "onMissed"}
       /\ log[j].kind = "fire" /\ log[j].cb \in {"onTick", "onMissed"})
      => JsLe(log[i].earliest, log[j].earliest)

\* C2: no handler of a deleted event is ever called again, and no tick calls
\* a handler of an event that was suspended and has not been requeued with
\* schedule, reschedule or sync since
C2_CancellationIsImmediate ==
  [][\A i \in DOMAIN log' :
       log'[i].cb # "none" =>
         /\ ev[log'[i].ev].state # "deleted"
         /\ lastOp'.name = "tick" => log'[i].ev \notin held]_vars

\* C3: a deletion while elapsedTickCount < repetitions never calls onComplete,
\* and a deletion when elapsedTickCount >= repetitions never calls onAborted
C3_TerminalCallback ==
  \A i \in DOMAIN log :
    log[i].kind = "delete" =>
      IF JsLt(log[i].elapsedTickCount, log[i].repetitions)
      THEN log[i].cb # "onComplete"
      ELSE log[i].cb # "onAborted"

\* C4: onComplete is never called for an event with repetitions = Infinity;
\* unless the caller deletes the event, it is called at the firing that makes
\* elapsedTickCount equal to repetitions; and an event that has ended is in
\* neither the queue nor the registry
C4_OnComplete ==
  /\ \A i \in DOMAIN log :
       log[i].cb = "onComplete" =>
         /\ log[i].repetitions # Infinity
         /\ lastOp.name \notin {"delete", "stop"} =>
              log[i].elapsedTickCount = log[i].repetitions
  /\ \A e \in Events :
       ev[e].state = "deleted" => ~hasEvent(Cur, e) /\ ~hasUIDFor(Cur, e)

\* C5: a firing calls onTick only if earliest <= now <= latest and onMissed
\* only if now is outside [earliest, latest], whichever handlers are set
C5_TickOrMissed ==
  \A i \in DOMAIN log :
    log[i].kind = "fire" =>
      LET onTime == JsLe(log[i].earliest, log[i].now)
                    /\ JsLe(log[i].now, log[i].latest)
      IN /\ log[i].cb = "onTick" => onTime
         /\ log[i].cb = "onMissed" => ~onTime

\* C6: when an event fires with repetitions remaining and fires again within
\* the same operation, the deadline of the later firing is the deadline of
\* the one before plus currentInterval, and strictly later
C6_NextDeadline ==
  \A i, j \in DOMAIN log :
    (/\ i < j
     /\ log[i].kind = "fire" /\ log[j].kind = "fire"
     /\ log[i].ev = log[j].ev
     /\ JsLt(log[i].elapsedTickCount, log[i].repetitions)
     /\ \A k \in (i + 1)..(j - 1) : ~(log[k].kind = "fire" /\ log[k].ev = log[i].ev))
    => /\ log[j].scheduled = JsAdd(log[i].scheduled, log[i].currentInterval)
       /\ JsLt(log[i].scheduled, log[j].scheduled)

\* C7: schedule(options) returns no event and leaves the queue, the registry
\* and the events unchanged when the clock is not running, when neither
\* delay nor loop is given, when delay is Infinity, or when repetitions is
\* Infinity while delay and loop.interval are unset or zero
C7_RejectedRequest ==
  [][\A o \in Requests :
       (/\ Schedule(o)
        /\ \/ ~isRunning
           \/ (o.delay = Undefined /\ ~o.loop)
           \/ o.delay = Infinity
           \/ (o.repetitions = Infinity /\ Falsy(o.delay) /\ Falsy(o.interval)))
       => /\ lastOp'.ret = Undefined
          /\ lastOp'.err = "none"
          /\ events' = events
          /\ uidmap' = uidmap
          /\ ev' = ev]_vars

\* a request was rejected for its options while the clock was running and
\* managing a queued event
C7_Witness ==
  /\ lastOp.name = "schedule"
  /\ lastOp.ret = Undefined
  /\ lastOp.err = "none"
  /\ isRunning
  /\ context = "running"
  /\ events # <<>>
  /\ uidmap # <<>>

\* C8: setInterval(cb, I) creates an event with repetitions = Infinity whose
\* first tick is due at the scheduling time and whose interval is I
C8_FirstTickImmediate ==
  [][\A i \in Intervals :
       (SetInterval(i) /\ lastOp'.ret # Undefined)
       => /\ ev'[lastOp'.ret].repetitions = Infinity
          /\ ev'[lastOp'.ret].currentInterval = i
          /\ \/ ev'[lastOp'.ret].elapsedTickCount >= 1
             \/ JsLe(ev'[lastOp'.ret].scheduled, now')]_vars

\* C9: schedule({delay: D, loop: {interval: I, repetitions: N}}) with D # I
\* creates an event whose interval is I
C9_IntervalAfterDelay ==
  [][\A o \in OptionRequests :
       (/\ ScheduleFirst(o)
        /\ lastOp'.ret # Undefined
        /\ ~NotANumber(o.delay) /\ ~NotANumber(o.interval)
        /\ ~NotANumber(o.repetitions)
        /\ o.delay # o.interval)
       => /\ ev'[lastOp'.ret].initialInterval = o.interval
          /\ ev'[lastOp'.ret].currentInterval = o.interval]_vars

\* C10: an event created with loop.interval given and loop.repetitions left
\* empty has repetitions = Infinity, also when delay is set
C10_RepetitionsDefault ==
  [][\A o \in OptionRequests :
       (/\ ScheduleFirst(o)
        /\ lastOp'.ret # Undefined
        /\ o.interval # Undefined
        /\ o.repetitions = Undefined)
       => ev'[lastOp'.ret].repetitions = Infinity]_vars

C12_ExplicitDeadline ==
  [][\A o \in WaitRequests : \A t \in Deadlines :
       (nextId' # nextId /\ ScheduleAt(o, t))
       => LET w == IF ~NotANumber(o.delay) THEN o.delay
                   ELSE IF ~NotANumber(o.interval) THEN o.interval
                   ELSE 0
              fired == {i \in DOMAIN log' :
                          log'[i].kind = "fire" /\ log'[i].ev = nextId}
              first == IF fired = {} THEN ev'[nextId].scheduled
                       ELSE log'[CHOOSE i \in fired : \A j \in fired : i <= j].scheduled
          IN first = t + (IF w >= 50 THEN w ELSE 5)]_vars

C14_SyncDefersFiring ==
  [][\A e \in Events : \A d \in SyncDelays :
       (lastOp'.name = "sync" /\ ev[e].state = "live" /\ context # "null"
          /\ SyncEarly(e, d))
       => /\ log' = <<>>
          /\ ev'[e].state = "live"
          /\ ev'[e].elapsedTickCount = ev[e].elapsedTickCount
          /\ ev'[e].scheduled = now + d
          /\ \E i \in DOMAIN events' : events'[i] = e]_vars


C16_StretchWithoutBurst ==
  [][\A e \in Events : \A r \in StretchRatios :
       (lastOp'.name = "timeStretch" /\ ev[e].state = "live"
          /\ ev[e].repetitions = Infinity /\ TimeStretch(e, r))
       => /\ \A i \in DOMAIN log' : ~(log'[i].ev = e /\ log'[i].kind = "fire")
          /\ \E i \in DOMAIN events' : events'[i] = e
          /\ JsLt(now, ev'[e].earliest)]_vars


\* C17: after every step the identifiers of the registered events are pairwise
\* distinct, and every identifier that enters the registry in the step was
\* never handed out before, so that the identifier of a deleted event is not
\* given to a later event
C17_UniqueIdentifiers ==
  [][/\ nextUid' >= nextUid
     /\ \A i, j \in DOMAIN uidmap' :
          i # j => /\ uidmap'[i].uid # uidmap'[j].uid
                   /\ uidmap'[i].key # uidmap'[j].key
     /\ \A i \in DOMAIN uidmap' :
          /\ uidmap'[i].uid < nextUid'
          /\ (\A k \in DOMAIN uidmap : uidmap[k] # uidmap'[i])
             => uidmap'[i].uid >= nextUid]_vars

\* a second event registered after the first one was deleted
C17_Witness ==
  /\ ev[1].state = "deleted"
  /\ ev[2].state = "live"
  /\ hasUIDFor(Cur, 2)
  /\ getUIDFor(Cur, 2) = nextUid - 1
  /\ nextUid >= 5


\* C18: after every step every live event carries the identifier the registry
\* holds for it, the registry's lookup of that identifier gives the event, and
\* an event that is live before and after the step keeps its identifier
C18_StableIdentifier ==
  [][\A e \in Events :
       ev'[e].state = "live"
       => /\ \E i \in DOMAIN uidmap' :
               uidmap'[i].key = e /\ uidmap'[i].uid = ev'[e].uid
          /\ \A i \in DOMAIN uidmap' :
               uidmap'[i].uid = ev'[e].uid => uidmap'[i].key = e
          /\ ev[e].state = "live" => ev'[e].uid = ev[e].uid]_vars

\* an event that has fired and was rescheduled, still under its identifier
C18_Witness ==
  /\ lastOp.name = "reschedule"
  /\ lastOp.e \in Events
  /\ ev[lastOp.e].state = "live"
  /\ ev[lastOp.e].timeStretch # One
  /\ ev[lastOp.e].uid = getUIDFor(Cur, lastOp.e)
  /\ getKeyFor(Cur, ev[lastOp.e].uid) = lastOp.e


\* C19: in every state between operations the registry holds exactly the
\* events that were created and are not deleted
C19_RegistryIsLiveEvents ==
  \A e \in Events : hasUIDFor(Cur, e) <=> ev[e].state = "live"


\* C20: hasEvent(e) is true exactly when the clock manages e, that is when e is
\* in the registry, also while e is suspended; hasEvent(uid) likewise for the
\* identifier of e
C20_HasEventIsManaged ==
  \A e \in Events :
    /\ hasEvent(Cur, e) <=> hasUIDFor(Cur, e)
    /\ ev[e].state = "live"
       => (hasEvent(Cur, getKeyFor(Cur, ev[e].uid)) <=> hasUIDFor(Cur, e))

\* C21: a tick that runs while the clock is paused leaves queue and registry
\* as they are and invokes no callback, and pause itself changes neither
C21_PauseRetainsQueue ==
  [][/\ (isPaused /\ ~isRunning /\ Tick)
        => (events' = events /\ uidmap' = uidmap /\ log' = <<>>)
     /\ Pause => (events' = events /\ uidmap' = uidmap)]_vars

\* C22: stop returns normally, leaves queue and registry empty, and invokes
\* exactly one terminal handler for every event that was managed before
C22_StopDeletesAll ==
  [][(lastOp'.name = "stop" /\ Stop)
     => /\ lastOp'.err = "none"
        /\ events' = <<>>
        /\ uidmap' = <<>>
        /\ \A e \in Events :
             ev[e].state = "live"
             => /\ ev'[e].state = "deleted"
                /\ Cardinality({i \in DOMAIN log' :
                                  /\ log'[i].ev = e
                                  /\ log'[i].kind = "delete"
                                  /\ log'[i].cb \in {"onAborted", "onComplete"}})
                   = 1]_vars

\* C23: whenever the clock is running its time source is there and is not
\* closed, also when start follows stop before the close has completed
C23_RunningHasContext == isRunning => context \notin {"null", "closed"}

\* C24: the callbacks of a score are invoked in list order, each at most
\* once; pair i+1 is shifted off and scheduled only after the callback of
\* pair i was invoked, for the time of that invocation plus its clamped wait,
\* and at most one one-shot of a score is pending
C24_ScoreChain ==
  \A k \in Scores :
    /\ \A j \in DOMAIN scores[k].calls : scores[k].calls[j].pair = j
    /\ scores[k].shifted <= Len(scores[k].calls) + 1
    /\ Cardinality({e \in Events : ev[e].state = "live" /\ ev[e].score = k}) <= 1
    /\ \A e \in Events :
         (ev[e].state = "live" /\ ev[e].score = k /\ ev[e].pair >= 2)
         => /\ ev[e].pair = Len(scores[k].calls) + 1
            /\ ev[e].scheduled
                 = scores[k].calls[ev[e].pair - 1].now
                   + ClampWait(scores[k].list[ev[e].pair])

\* a score of two pairs whose callbacks were both invoked, the second one a
\* wait after the first
C24_Witness ==
  \E k \in Scores :
    /\ Len(scores[k].list) = 2
    /\ Len(scores[k].calls) = 2
    /\ scores[k].calls[2].now
         >= scores[k].calls[1].now + ClampWait(scores[k].list[2])
    /\ \A e \in Events : ev[e].state # "live"

\* C25: once break() was called on a score no further pair of it is shifted
\* off and scheduled, and no callback of a pair that was not scheduled is
\* invoked; break() itself touches no other score and no event
C25_BreakStopsScore ==
  [][\A k \in Scores :
       /\ scores[k].breaker
          => /\ scores'[k].breaker
             /\ scores'[k].shifted = scores[k].shifted
             /\ scores'[k].pairs = scores[k].pairs
             /\ \A j \in DOMAIN scores'[k].calls :
                  scores'[k].calls[j].pair <= scores[k].shifted
             /\ \A e \in Events :
                  (ev'[e].state = "live" /\ ev'[e].score = k)
                  => ev[e].state = "live"
       /\ (lastOp'.name = "break" /\ Break(k))
          => /\ \A j \in Scores \ {k} : scores'[j] = scores[j]
             /\ events' = events /\ ev' = ev /\ uidmap' = uidmap]_vars

\* a broken score with a pair that was never scheduled, and a later score
\* whose callback was invoked
C25_Witness ==
  /\ scores[1].breaker
  /\ scores[1].shifted = 1
  /\ Len(scores[1].list) = 2
  /\ ~scores[2].breaker
  /\ Len(scores[2].calls) = 1
  /\ \A e \in Events : ev[e].state = "deleted"

C27_DeletedEventIsNoOp ==
  [][(/\ lastOp'.name \in {"scheduleEvent", "suspend", "delete", "sync",
                           "timeStretch"}
      /\ lastOp'.e \in Events
      /\ ev[lastOp'.e].state = "deleted")
     => /\ lastOp'.err = "none"
        /\ events' = events
        /\ uidmap' = uidmap]_vars

\* C28: when the handler of a firing deletes the event that fires, the tick
\* returns normally, the event has fired once, is deleted and gone from queue
\* and registry, one delete with its terminal handler (if set) was run for it,
\* and every other event that was due has fired as well
C28_DeleteWhileFiring ==
  [][\A e \in Events :
       (/\ lastOp'.name = "tick"
        /\ ev[e].state = "live"
        /\ ev[e].does["onTick"] = "deleteSelf"
        /\ \E i \in DOMAIN log' : log'[i].ev = e /\ log'[i].kind = "fire")
       => /\ lastOp'.err = "none"
          /\ ev'[e].state = "deleted"
          /\ \A i \in DOMAIN events' : events'[i] # e
          /\ \A i \in DOMAIN uidmap' : uidmap'[i].key # e
          /\ Cardinality({i \in DOMAIN log' :
                            log'[i].ev = e /\ log'[i].kind = "fire"}) = 1
          /\ Cardinality({i \in DOMAIN log' :
                            log'[i].ev = e /\ log'[i].kind = "delete"}) = 1
          /\ \A i \in DOMAIN log' :
               (log'[i].ev = e /\ log'[i].kind = "delete")
               => log'[i].cb = (IF "onAborted" \in ev[e].handlers
                                  THEN "onAborted"
                                ELSE IF "onComplete" \in ev[e].handlers
                                  THEN "onComplete"
                                ELSE "none")
          /\ \A f \in Events \ {e} :
               (/\ \E i \in DOMAIN events : events[i] = f
                /\ JsLe(ev[f].earliest, now))
               => \E i \in DOMAIN log' :
                    log'[i].ev = f /\ log'[i].kind = "fire"]_vars

\* a tick in which the first of two due events deleted itself and the second
\* fired after it
C28_Witness ==
  /\ lastOp.name = "tick"
  /\ Len(log) = 3
  /\ log[1].kind = "fire" /\ log[1].cb = "onTick"
  /\ log[2].kind = "delete" /\ log[2].ev = log[1].ev /\ log[2].cb = "onAborted"
  /\ log[3].kind = "fire" /\ log[3].ev # log[1].ev
  /\ ev[log[1].ev].state = "deleted"
  /\ ev[log[3].ev].state = "live"

\* C29: an event that is inserted into the queue is placed behind every event
\* that was queued before it with the same earliest bound
C29_TiesKeepInsertionOrder ==
  [][\A a, b \in Events :
       (/\ \E i \in DOMAIN events : events[i] = a
        /\ \A i \in DOMAIN events : events[i] # b
        /\ ev'[a].state = "live" /\ ev'[b].state = "live"
        /\ ev'[a].earliest = ev'[b].earliest
        /\ ~NotANumber(ev'[a].earliest))
       => \A i, j \in DOMAIN events' :
            (events'[i] = a /\ events'[j] = b) => i < j]_vars

\* C30: between operations the queue is sorted ascending by earliest bound
\* and every queued event has a finite numeric deadline
C30_QueueSorted ==
  /\ \A i \in DOMAIN events :
       /\ ev[events[i]].state = "live"
       /\ ~NotANumber(ev[events[i]].scheduled)
       /\ ev[events[i]].scheduled # Infinity
       /\ ~NotANumber(ev[events[i]].earliest)
  /\ \A i, j \in DOMAIN events :
       i < j => JsLe(ev[events[i]].earliest, ev[events[j]].earliest)

\* C31: when a tick returns no queued event has an earliest bound at or
\* before the current time, and every event that was queued and due when the
\* tick began has fired within the tick
C31_TickFiresAllDue ==
  [][(tickQueued /\ ~tickQueued' /\ lastOp'.name = "tick")
       => /\ \A i \in DOMAIN events' :
               ~JsLe(ev'[events'[i]].earliest, now')
          /\ \A i \in DOMAIN events :
               JsLe(ev[events[i]].earliest, now)
                 => \E j \in DOMAIN log' :
                      log'[j].ev = events[i] /\ log'[j].kind = "fire"]_vars

\* C32: no event is both in the queue and suspended, also after a handler has
\* called suspend, schedule, sync or timeStretch during a firing
C32_QueuedNotSuspended ==
  \A e \in Events :
    ev[e].state = "live" => ~(hasEvent(Cur, e) /\ ev[e].suspended)

\* a handler has suspended the event during its firing
C32_Witness ==
  /\ lastOp.name = "tick"
  /\ \E i \in DOMAIN log :
       /\ log[i].kind = "fire"
       /\ log[i].cb # "none"
       /\ ev[log[i].ev].state = "live"
       /\ ev[log[i].ev].does[log[i].cb] = "suspendSelf"
       /\ ev[log[i].ev].suspended
       /\ ~hasEvent(Cur, log[i].ev)
  /\ events # <<>>

\* C33: no event is in the queue more than once and every queued event is in
\* the identifier registry, so the queue is never longer than the registry
C33_QueueWithoutDuplicates ==
  /\ \A i, j \in DOMAIN events : i # j => events[i] # events[j]
  /\ \A i \in DOMAIN events : hasUIDFor(Cur, events[i])
  /\ Len(events) <= Len(keys(Cur))

\* a handler has requeued the other event, which was in the queue, during a
\* firing
C33_Witness ==
  /\ lastOp.name = "tick"
  /\ lastOp.err = "none"
  /\ Len(events) = 2
  /\ \E i \in DOMAIN log :
       /\ log[i].kind = "fire"
       /\ log[i].cb # "none"
       /\ ev[log[i].ev].state = "live"
       /\ ev[log[i].ev].does[log[i].cb] = "syncOthers"
       /\ \E k \in Events :
            /\ k # log[i].ev
            /\ hasEvent(Cur, k)
            /\ ev[k].scheduled = now + HandlerDelay

\* C34: after clock.schedule(e), sync, reschedule, timeStretch or
\* event.schedule of a live event its deadline is finite, earliest is
\* scheduled - early, latest is scheduled + late, and
\* earliest <= scheduled <= latest
C34_DeadlineWithinBounds ==
  [][\A e \in Events :
       (/\ lastOp'.name \in {"scheduleEvent", "sync", "reschedule",
                             "timeStretch", "event.schedule"}
        /\ lastOp'.e = e
        /\ lastOp'.err = "none"
        /\ ev'[e].state = "live")
       => /\ TypeofNumber(ev'[e].scheduled)
          /\ ~NotANumber(ev'[e].scheduled)
          /\ ev'[e].scheduled # Infinity
          /\ ev'[e].earliest = JsSub(ev'[e].scheduled, ev'[e].early)
          /\ ev'[e].latest = JsAdd(ev'[e].scheduled, ev'[e].late)
          /\ ~NotANumber(ev'[e].earliest)
          /\ ~NotANumber(ev'[e].latest)
          /\ JsLe(ev'[e].earliest, ev'[e].scheduled)
          /\ JsLe(ev'[e].scheduled, ev'[e].latest)]_vars

\* C35: between operations every managed event that is not suspended and has
\* repetitions left is in the queue
C35_NoEventDropped ==
  \A e \in Events :
    (/\ ev[e].state = "live"
     /\ hasUIDFor(Cur, e)
     /\ ~ev[e].suspended
     /\ isLooping(Cur, e))
    => hasEvent(Cur, e)

\* C36: timeStretch returns: no call of it stays in its catch-up loop
C36_TimeStretchTerminates ==
  lastOp.name = "timeStretch" => lastOp.err # "Hang"

\* C37: timeStretch on a suspended event updates its interval, leaves it
\* suspended and out of the queue, and calls none of its handlers
C37_StretchKeepsSuspended ==
  [][\A e \in Events :
       (/\ ev[e].state = "live"
        /\ ev[e].suspended
        /\ lastOp'.name = "timeStretch"
        /\ lastOp'.e = e)
       => /\ ev'[e].state = "live"
          /\ ev'[e].suspended
          /\ \A i \in DOMAIN events' : events'[i] # e
          /\ ev'[e].currentInterval =
               JsScale(ev'[e].initialInterval, ev'[e].timeStretch)
          /\ log' = <<>>]_vars

\* C38: an operation that deletes an event ends without error, has called the
\* event's terminal handler at most once and leaves the event deleted, also
\* when the terminal handler itself deletes the event
C38_DeleteIsReentrant ==
  [][\A e \in Events :
       (/\ ev[e].state = "live"
        /\ \E i \in DOMAIN log' : log'[i].ev = e /\ log'[i].kind = "delete")
       => /\ lastOp'.err = "none"
          /\ ev'[e].state = "deleted"
          /\ Cardinality({ i \in DOMAIN log' :
                             /\ log'[i].ev = e
                             /\ log'[i].kind = "delete"
                             /\ log'[i].cb # "none" }) <= 1]_vars


====
